---- MODULE Spec2Model ----
(***************************************************************************)
(* The document upload -> auto-fill pipeline of main.py:                   *)
(*   upload_document -> _guess_text -> extract_answers_from_text           *)
(*                      (_extract_sentences, _find_section).               *)
(* A str is a sequence of Unicode code points, a bytes object a sequence   *)
(* of integers 0..255.                                                     *)
(***************************************************************************)
EXTENDS Integers, Sequences, FiniteSets, TLC

\* ------------------------------------------------------------------------
\* Notation for the str literals of the source: ord() of an ASCII character.
\* ------------------------------------------------------------------------
Digits == << "0", "1", "2", "3", "4", "5", "6", "7", "8", "9" >>

Upper ==
  << "A", "B", "C", "D", "E", "F", "G", "H", "I", "J", "K", "L", "M", "N",
     "O", "P", "Q", "R", "S", "T", "U", "V", "W", "X", "Y", "Z" >>

Letters ==
  << "a", "b", "c", "d", "e", "f", "g", "h", "i", "j", "k", "l", "m", "n",
     "o", "p", "q", "r", "s", "t", "u", "v", "w", "x", "y", "z" >>

Index(tbl, c) == CHOOSE i \in 1..Len(tbl) : tbl[i] = c

Ord(c) ==
  CASE c = " " -> 32
    [] c = "(" -> 40
    [] c = ")" -> 41
    [] c = "," -> 44
    [] c = "." -> 46
    [] c = ";" -> 59
    [] c = "!" -> 33
    [] c = ":" -> 58
    [] \E i \in 1..Len(Digits) : Digits[i] = c -> 47 + Index(Digits, c)
    [] \E i \in 1..Len(Upper) : Upper[i] = c -> 64 + Index(Upper, c)
    [] \E i \in 1..Len(Letters) : Letters[i] = c -> 96 + Index(Letters, c)

\* The str (or ASCII bytes) spelled by a tuple of one-character strings.
Str(s) == [i \in 1..Len(s) |-> Ord(s[i])]

LF == 10
CR == 13
TAB == 9
SPACE == 32
PERIOD == 46
EURO == 8364

\* None, as returned by _find_section and by page.extract_text().
None == << -1 >>

\* Truthiness of an Optional[str]: None and "" are falsy.
Truthy(s) == s # None /\ s # << >>

\* ------------------------------------------------------------------------
\* Built-in str / list operations used by the pipeline.
\* ------------------------------------------------------------------------
\* The characters str.strip() and str.split() treat as whitespace.
WhiteSpace ==
  {9, 10, 11, 12, 13, 28, 29, 30, 31, 32, 133, 160, 5760, 8232, 8233, 8239,
   8287, 12288} \cup (8192..8202)

\* str.replace(a, b) for single characters.
Replace(t, a, b) == [i \in 1..Len(t) |-> IF t[i] = a THEN b ELSE t[i]]

\* The least index >= from whose character is in S, or 0.
FirstIn(t, from, S) ==
  IF \E i \in from..Len(t) : t[i] \in S
  THEN CHOOSE i \in from..Len(t) :
         t[i] \in S /\ \A j \in from..(i - 1) : t[j] \notin S
  ELSE 0

\* The least index >= from whose character is not in S, or 0.
FirstNotIn(t, from, S) ==
  IF \E i \in from..Len(t) : t[i] \notin S
  THEN CHOOSE i \in from..Len(t) :
         t[i] \notin S /\ \A j \in from..(i - 1) : t[j] \in S
  ELSE 0

\* The greatest index whose character is not in S, or 0.
LastNotIn(t, S) ==
  IF \E i \in 1..Len(t) : t[i] \notin S
  THEN CHOOSE i \in 1..Len(t) :
         t[i] \notin S /\ \A j \in (i + 1)..Len(t) : t[j] \in S
  ELSE 0

\* The indices of t whose character is in S, ascending.
Positions(t, S) ==
  SelectSeq([i \in 1..Len(t) |-> i], LAMBDA i : t[i] \in S)

\* str.split(d) for a single-character separator d: always at least one
\* piece, empty pieces kept.
Split(t, d) ==
  LET at == Positions(t, {d})
      n == Len(at)
      lo(k) == IF k = 1 THEN 1 ELSE at[k - 1] + 1
      hi(k) == IF k = n + 1 THEN Len(t) ELSE at[k] - 1
  IN  [k \in 1..(n + 1) |-> SubSeq(t, lo(k), hi(k))]

\* str.strip(chars): drop leading and trailing characters of the set.
StripChars(t, chars) ==
  LET a == FirstNotIn(t, 1, chars)
  IN  IF a = 0 THEN << >> ELSE SubSeq(t, a, LastNotIn(t, chars))

\* str.strip()
Strip(t) == StripChars(t, WhiteSpace)

\* str.split(): the maximal runs of non-whitespace, in order.
RECURSIVE SplitWsFrom(_, _)
SplitWsFrom(t, from) ==
  LET a == FirstNotIn(t, from, WhiteSpace)
  IN  IF a = 0 THEN << >>
      ELSE LET e == FirstIn(t, a, WhiteSpace)
           IN  IF e = 0 THEN << SubSeq(t, a, Len(t)) >>
               ELSE << SubSeq(t, a, e - 1) >> \o SplitWsFrom(t, e + 1)

SplitWs(t) == SplitWsFrom(t, 1)

\* str.lower() of one character (ASCII and Latin-1 letters).
LowerChar(c) ==
  IF c >= 65 /\ c <= 90 THEN c + 32
  ELSE IF c >= 192 /\ c <= 222 /\ c # 215 THEN c + 32
  ELSE c

\* str.lower()
Lower(t) == [i \in 1..Len(t) |-> LowerChar(t[i])]

\* k in s
Contains(s, k) ==
  \E i \in 0..(Len(s) - Len(k)) : \A j \in 1..Len(k) : s[i + j] = k[j]

\* s.endswith(suffix)
EndsWith(s, suffix) ==
  /\ Len(s) >= Len(suffix)
  /\ SubSeq(s, Len(s) - Len(suffix) + 1, Len(s)) = suffix

\* s[:n]
Take(s, n) == SubSeq(s, 1, IF Len(s) < n THEN Len(s) ELSE n)

\* sep.join(parts)
RECURSIVE Join(_, _)
Join(parts, sep) ==
  IF Len(parts) = 0 THEN << >>
  ELSE IF Len(parts) = 1 THEN parts[1]
  ELSE Join(SubSeq(parts, 1, Len(parts) - 1), sep) \o sep \o parts[Len(parts)]

\* a < b for str: lexicographic by code point.
StrLess(a, b) ==
  \E i \in 1..(Len(b)) :
     /\ \A j \in 1..(i - 1) : j <= Len(a) /\ a[j] = b[j]
     /\ (i = Len(a) + 1 \/ (i <= Len(a) /\ a[i] < b[i]))

\* sorted(set(xs)) for a list of str.
SortedSet(xs) ==
  LET S == {xs[i] : i \in 1..Len(xs)}
  IN  [k \in 1..Cardinality(S) |->
         CHOOSE x \in S : Cardinality({y \in S : StrLess(y, x)}) = k - 1]

\* ------------------------------------------------------------------------
\* bytes.decode(enc).  A decoder returns the str, or DecodeError when it
\* raises UnicodeDecodeError.
\* ------------------------------------------------------------------------
DecodeError == << -2 >>

\* Number of bytes of the UTF-8 sequence led by byte c (0: invalid lead).
Utf8Width(c) ==
  IF c < 128 THEN 1
  ELSE IF c >= 194 /\ c <= 223 THEN 2
  ELSE IF c >= 224 /\ c <= 239 THEN 3
  ELSE IF c >= 240 /\ c <= 244 THEN 4
  ELSE 0

\* The allowed range of the second byte after lead byte c (no overlong
\* forms, no surrogates, nothing above U+10FFFF).
Utf8Second(c) ==
  IF c = 224 THEN 160..191
  ELSE IF c = 237 THEN 128..159
  ELSE IF c = 240 THEN 144..191
  ELSE IF c = 244 THEN 128..143
  ELSE 128..191

Utf8Point(b, i, n) ==
  IF n = 1 THEN b[i]
  ELSE IF n = 2 THEN (b[i] - 192) * 64 + (b[i + 1] - 128)
  ELSE IF n = 3 THEN (b[i] - 224) * 4096 + (b[i + 1] - 128) * 64
                     + (b[i + 2] - 128)
  ELSE (b[i] - 240) * 262144 + (b[i + 1] - 128) * 4096
       + (b[i + 2] - 128) * 64 + (b[i + 3] - 128)

Continuation == 128..191

\* A sequence led by the byte at i is well formed: a valid lead byte, all
\* its continuation bytes present and in range.
Utf8WellFormed(b, i) ==
  LET n == Utf8Width(b[i])
  IN  /\ n > 0
      /\ i + n - 1 <= Len(b)
      /\ n >= 2 => b[i + 1] \in Utf8Second(b[i])
      /\ \A k \in 2..(n - 1) : b[i + k] \in Continuation

\* data.decode("utf-8"), strict: continuation bytes never lead, so the
\* sequences start exactly at the other bytes; each must be well formed
\* and every continuation byte must belong to one.
Utf8Decode(b) ==
  LET leads == SelectSeq([i \in 1..Len(b) |-> i],
                         LAMBDA i : b[i] \notin Continuation)
      Owned(i) == \E k \in 1..3 :
                    /\ i - k >= 1
                    /\ b[i - k] \notin Continuation
                    /\ Utf8Width(b[i - k]) > k
                    /\ \A j \in (i - k + 1)..(i - 1) : b[j] \in Continuation
  IN  IF /\ \A k \in 1..Len(leads) : Utf8WellFormed(b, leads[k])
         /\ \A i \in 1..Len(b) : b[i] \in Continuation => Owned(i)
      THEN [k \in 1..Len(leads) |->
              Utf8Point(b, leads[k], Utf8Width(b[leads[k]]))]
      ELSE DecodeError

\* data.decode("latin-1"): every byte is the code point of its value.
Latin1Decode(b) == [i \in 1..Len(b) |-> b[i]]

RECURSIVE Utf16Units(_, _)
Utf16Units(u, i) ==
  IF i > Len(u) THEN << >>
  ELSE IF u[i] >= 56320 /\ u[i] <= 57343 THEN DecodeError
  ELSE IF u[i] >= 55296 /\ u[i] <= 56319
       THEN IF i = Len(u) \/ u[i + 1] < 56320 \/ u[i + 1] > 57343
            THEN DecodeError
            ELSE LET rest == Utf16Units(u, i + 2)
                 IN  IF rest = DecodeError THEN DecodeError
                     ELSE << 65536 + (u[i] - 55296) * 1024
                             + (u[i + 1] - 56320) >> \o rest
  ELSE LET rest == Utf16Units(u, i + 1)
       IN  IF rest = DecodeError THEN DecodeError ELSE << u[i] >> \o rest

\* data.decode("utf-16"): a byte order mark selects the byte order and is
\* dropped, little-endian without one; an odd byte or a lone surrogate raises.
Utf16Decode(b) ==
  LET le == Len(b) >= 2 /\ b[1] = 255 /\ b[2] = 254
      be == Len(b) >= 2 /\ b[1] = 254 /\ b[2] = 255
      body == IF le \/ be THEN SubSeq(b, 3, Len(b)) ELSE b
      units == [k \in 1..(Len(body) \div 2) |->
                  IF be THEN body[2 * k - 1] * 256 + body[2 * k]
                  ELSE body[2 * k] * 256 + body[2 * k - 1]]
  IN  IF Len(body) % 2 = 1 THEN DecodeError ELSE Utf16Units(units, 1)

Decode(enc, b) ==
  CASE enc = "utf-8" -> Utf8Decode(b)
    [] enc = "latin-1" -> Latin1Decode(b)
    [] enc = "utf-16" -> Utf16Decode(b)

\* ------------------------------------------------------------------------
\* _safe_text_from_pdf / _safe_text_from_docx.  What the parsing library
\* does with the bytes is its outcome `lib`:
\*   [opens |-> BOOLEAN, pages |-> sequence of [raises, text]]
\* opens = FALSE: the import, the reader or the page iteration raises.
\* ------------------------------------------------------------------------
NoLib == [opens |-> FALSE, pages |-> << >>]

\* Faulty variant: a page that raises ends the loop.
RECURSIVE PageTextsAbort(_, _, _)
PageTextsAbort(pages, i, texts) ==
  IF i > Len(pages) THEN texts
  ELSE IF pages[i].raises THEN texts
  ELSE PageTextsAbort(pages, i + 1,
                      Append(texts, IF Truthy(pages[i].text) THEN pages[i].text
                                    ELSE << >>))

\* The loop over reader.pages: texts.append(page.extract_text() or ""),
\* a page that raises is skipped.
RECURSIVE PageTexts(_, _, _)
PageTexts(pages, i, texts) ==
  IF i > Len(pages) THEN texts
  ELSE IF pages[i].raises THEN PageTexts(pages, i + 1, texts)
  ELSE PageTexts(pages, i + 1,
                 Append(texts, IF Truthy(pages[i].text) THEN pages[i].text
                               ELSE << >>))

SafeTextFromPdf(lib) ==
  IF ~lib.opens THEN << >>
  ELSE Join(PageTexts(lib.pages, 1, << >>), << LF >>)

SafeTextFromDocx(lib) ==
  IF ~lib.opens \/ \E i \in 1..Len(lib.pages) : lib.pages[i].raises
  THEN << >>
  ELSE Join([i \in 1..Len(lib.pages) |-> lib.pages[i].text], << LF >>)

\* ------------------------------------------------------------------------
\* _guess_text
\* ------------------------------------------------------------------------
Encodings == << "utf-8", "latin-1", "utf-16" >>

DotPdf == Str(<< ".", "p", "d", "f" >>)
DotDocx == Str(<< ".", "d", "o", "c", "x" >>)

\* file.filename.lower() if file.filename else ""
LowerName(filename) == IF Truthy(filename) THEN Lower(filename) ELSE << >>

IsPdfName(filename) == EndsWith(LowerName(filename), DotPdf)
IsDocxName(filename) == EndsWith(LowerName(filename), DotDocx)

\* Faulty variant: Latin-1 is left out of the encodings.
RECURSIVE DecodeLoopNoLatin1(_, _, _)
DecodeLoopNoLatin1(b, i, tried) ==
  IF i > Len(Encodings) THEN [text |-> << >>, tried |-> tried]
  ELSE IF Encodings[i] = "latin-1" THEN DecodeLoopNoLatin1(b, i + 1, tried)
  ELSE LET r == Decode(Encodings[i], b)
       IN  IF r # DecodeError
           THEN [text |-> r, tried |-> Append(tried, Encodings[i])]
           ELSE DecodeLoopNoLatin1(b, i + 1, Append(tried, Encodings[i]))

\* The fallback loop from encoding number i on: the first decode that does
\* not raise is returned; `tried` lists the encodings attempted.
RECURSIVE DecodeLoop(_, _, _)
DecodeLoop(b, i, tried) ==
  IF i > Len(Encodings) THEN [text |-> << >>, tried |-> tried]
  ELSE LET r == Decode(Encodings[i], b)
       IN  IF r # DecodeError
           THEN [text |-> r, tried |-> Append(tried, Encodings[i])]
           ELSE DecodeLoop(b, i + 1, Append(tried, Encodings[i]))

GuessText(filename, b, lib) ==
  IF IsPdfName(filename)
  THEN [text |-> SafeTextFromPdf(lib), tried |-> << >>]
  ELSE IF IsDocxName(filename)
  THEN [text |-> SafeTextFromDocx(lib), tried |-> << >>]
  ELSE DecodeLoop(b, 1, << >>)

\* ------------------------------------------------------------------------
\* _extract_sentences
\* ------------------------------------------------------------------------
\* Faulty variant: the candidates are tested for emptiness but not stripped.
SentencesOfSegUnstripped(seg) ==
  SelectSeq(Split(seg, PERIOD), LAMBDA s : Len(s) > 0)

\* The inner loop: for s in seg.split('.'), strip, keep when non-empty.
SentencesOfSeg(seg) ==
  LET pieces == Split(seg, PERIOD)
  IN  SelectSeq([i \in 1..Len(pieces) |-> Strip(pieces[i])],
                LAMBDA s : Len(s) > 0)

\* The outer loop: for seg in text.replace("\r", " ").split("\n").
RECURSIVE SentencesOfSegs(_, _)
SentencesOfSegs(segs, i) ==
  IF i > Len(segs) THEN << >>
  ELSE SentencesOfSeg(segs[i]) \o SentencesOfSegs(segs, i + 1)

ExtractSentences(t) ==
  SentencesOfSegs(Split(Replace(t, CR, SPACE), LF), 1)

\* ------------------------------------------------------------------------
\* _find_section
\* ------------------------------------------------------------------------
\* any(k in low for k in keywords)
AnyKeyword(low, keywords) ==
  \E k \in 1..Len(keywords) : Contains(low, keywords[k])

\* Faulty variant: the sentence is not lowered before the keyword test.
FindSectionCaseSensitive(sents, keywords) ==
  LET hits == SelectSeq(sents, LAMBDA s : AnyKeyword(s, keywords))
  IN  IF Len(hits) = 0 THEN None ELSE Strip(hits[1])

\* The loop returns at the first sentence with a keyword.
FindSection(sents, keywords) ==
  LET hits == SelectSeq(sents, LAMBDA s : AnyKeyword(Lower(s), keywords))
  IN  IF Len(hits) = 0 THEN None ELSE Strip(hits[1])

\* ------------------------------------------------------------------------
\* extract_answers_from_text
\* ------------------------------------------------------------------------
ImpactKeywords ==
  << Str(<< "i", "m", "p", "a", "c", "t" >>),
     Str(<< "s", "o", "c", "i", "e", "t", "a", "l" >>),
     Str(<< "e", "n", "v", "i", "r", "o", "n", "m", "e", "n", "t" >>),
     Str(<< "c", "l", "i", "m", "a", "t", "e" >>),
     Str(<< "e", "c", "o", "n", "o", "m", "i", "c" >>) >>

TrlKeywords ==
  << Str(<< "t", "r", "l" >>),
     Str(<< "t", "e", "c", "h", "n", "o", "l", "o", "g", "y", " ", "r", "e", "a", "d", "i", "n", "e", "s", "s" >>) >>

MarketKeywords ==
  << Str(<< "m", "a", "r", "k", "e", "t" >>),
     Str(<< "c", "u", "s", "t", "o", "m", "e", "r" >>),
     Str(<< "u", "s", "e", "r", "s" >>),
     Str(<< "c", "l", "i", "e", "n", "t", "s" >>),
     Str(<< "s", "e", "g", "m", "e", "n", "t" >>) >>

PartnerKeywords ==
  << Str(<< "p", "a", "r", "t", "n", "e", "r" >>),
     Str(<< "c", "o", "n", "s", "o", "r", "t", "i", "u", "m" >>),
     Str(<< "u", "n", "i", "v", "e", "r", "s", "i", "t", "y" >>),
     Str(<< "r", "e", "s", "e", "a", "r", "c", "h" >>),
     Str(<< "i", "n", "d", "u", "s", "t", "r", "y", " ", "p", "a", "r", "t", "n", "e", "r" >>) >>

SizeKeywords ==
  << Str(<< "s", "m", "e" >>),
     Str(<< "s", "t", "a", "r", "t", "u", "p" >>),
     Str(<< "l", "a", "r", "g", "e" >>),
     Str(<< "e", "m", "p", "l", "o", "y", "e", "e", "s" >>),
     Str(<< "c", "o", "u", "n", "t", "r", "y" >>) >>

BudgetKeywords ==
  << Str(<< "b", "u", "d", "g", "e", "t" >>),
     Str(<< "t", "i", "m", "e", "l", "i", "n", "e" >>),
     Str(<< "m", "o", "n", "t", "h" >>),
     Str(<< "y", "e", "a", "r" >>),
     Str(<< "m", "i", "l", "e", "s", "t", "o", "n", "e" >>),
     << EURO >>,
     Str(<< "e", "u", "r" >>) >>

PriorKeywords ==
  << Str(<< "g", "r", "a", "n", "t" >>),
     Str(<< "f", "u", "n", "d", "i", "n", "g" >>),
     Str(<< "h", "2", "0", "2", "0" >>),
     Str(<< "h", "o", "r", "i", "z", "o", "n" >>),
     Str(<< "e", "i", "c" >>),
     Str(<< "l", "i", "f", "e" >>) >>

RiskKeywords ==
  << Str(<< "r", "i", "s", "k" >>),
     Str(<< "c", "h", "a", "l", "l", "e", "n", "g", "e" >>),
     Str(<< "m", "i", "t", "i", "g", "a", "t", "e" >>),
     Str(<< "u", "n", "c", "e", "r", "t", "a", "i", "n", "t", "y" >>) >>

Vocabulary ==
  << Str(<< "a", "i" >>),
     Str(<< "m", "l" >>),
     Str(<< "i", "o", "t" >>),
     Str(<< "r", "o", "b", "o", "t", "i", "c", "s" >>),
     Str(<< "s", "p", "a", "c", "e" >>),
     Str(<< "c", "l", "i", "m", "a", "t", "e" >>),
     Str(<< "m", "a", "n", "u", "f", "a", "c", "t", "u", "r", "i", "n", "g" >>),
     Str(<< "b", "i", "o", "t", "e", "c", "h" >>),
     Str(<< "e", "n", "e", "r", "g", "y" >>),
     Str(<< "s", "o", "f", "t", "w", "a", "r", "e" >>) >>

SummaryFragments == 3
SummaryCap == 600
KeywordFragments == 50
KeywordCap == 5

\* The characters token.strip(',;()') removes.
TokenPunctuation == {Ord(","), Ord(";"), Ord("("), Ord(")")}

\* Faulty variant: a new key goes to the front.
DictSetFront(d, k, v) ==
  IF \E i \in 1..Len(d) : d[i].question_id = k
  THEN [i \in 1..Len(d) |->
          IF d[i].question_id = k THEN [d[i] EXCEPT !.answer = v] ELSE d[i]]
  ELSE << [question_id |-> k, answer |-> v] >> \o d

\* answers[k] = v on a dict, kept in insertion order.
DictSet(d, k, v) ==
  IF \E i \in 1..Len(d) : d[i].question_id = k
  THEN [i \in 1..Len(d) |->
          IF d[i].question_id = k THEN [d[i] EXCEPT !.answer = v] ELSE d[i]]
  ELSE Append(d, [question_id |-> k, answer |-> v])

\* s = _find_section(...); if s: answers[k] = s
SetIfFound(d, k, s) == IF Truthy(s) THEN DictSet(d, k, s) ELSE d

\* The vocabulary tokens of one sentence, in order.
SentenceKeywords(s) ==
  LET tokens == SplitWs(s)
      t == [k \in 1..Len(tokens) |->
              Lower(StripChars(tokens[k], TokenPunctuation))]
      InVocabulary(x) == \E v \in 1..Len(Vocabulary) : Vocabulary[v] = x
  IN  SelectSeq(t, InVocabulary)

\* kws after the loop over the given sentences.
RECURSIVE CollectKeywords(_, _)
CollectKeywords(sents, i) ==
  IF i > Len(sents) THEN << >>
  ELSE SentenceKeywords(sents[i]) \o CollectKeywords(sents, i + 1)

\* Faulty variant: the sorted keywords are not cut to five.
KeywordAnswerUncapped(kws) == Join(SortedSet(kws), << Ord(","), SPACE >>)

\* ", ".join(sorted(set(kws))[:5])
KeywordAnswer(kws) ==
  Join(Take(SortedSet(kws), KeywordCap), << Ord(","), SPACE >>)

SetKeywords(d, kws) ==
  IF Len(kws) > 0 THEN DictSet(d, "q9", KeywordAnswer(kws)) ELSE d

\* Faulty variant: the joined fragments are not cut to 600 characters.
SummaryUncapped(sents) == Join(Take(sents, SummaryFragments), << SPACE >>)

\* summary = " ".join(sentences[:3])[:600]
Summary(sents) ==
  Take(Join(Take(sents, SummaryFragments), << SPACE >>), SummaryCap)

\* summary or (sentences[0] if sentences else "")
FirstAnswer(sents) ==
  LET summary == Summary(sents)
  IN  IF Truthy(summary) THEN summary
      ELSE IF Len(sents) > 0 THEN sents[1] ELSE << >>

\* Faulty variant: q1 is stored only when there is something to store.
SetSummaryIfAny(d, sents) == SetIfFound(d, "q1", FirstAnswer(sents))

\* answers["q1"] = summary or ...
SetSummary(d, sents) == DictSet(d, "q1", FirstAnswer(sents))

\* The answers dict after each assignment of the function, q1 to q10.
Answers(sents) ==
  LET a1 == SetSummary(<< >>, sents)
      a2 == SetIfFound(a1, "q2", FindSection(sents, ImpactKeywords))
      a3 == SetIfFound(a2, "q3", FindSection(sents, TrlKeywords))
      a4 == SetIfFound(a3, "q4", FindSection(sents, MarketKeywords))
      a5 == SetIfFound(a4, "q5", FindSection(sents, PartnerKeywords))
      a6 == SetIfFound(a5, "q6", FindSection(sents, SizeKeywords))
      a7 == SetIfFound(a6, "q7", FindSection(sents, BudgetKeywords))
      a8 == SetIfFound(a7, "q8", FindSection(sents, PriorKeywords))
      a9 == SetKeywords(a8, CollectKeywords(Take(sents, KeywordFragments), 1))
  IN  SetIfFound(a9, "q10", FindSection(sents, RiskKeywords))

\* (filled, summary), with the sentences it was computed from.
ExtractAnswersFromText(t) ==
  LET sents == ExtractSentences(t)
  IN  [sentences |-> sents, filled |-> Answers(sents),
       summary |-> Summary(sents)]

\* ------------------------------------------------------------------------
\* The requests the model uploads.  Byte strings are built from pieces so
\* that every stage of the pipeline meets the inputs that matter to it.
\* ------------------------------------------------------------------------
MaxBytes == 3
MaxPages == 2
MaxSegPieces == 5
MaxKwPieces == 2
MaxVocPieces == 2
MaxLongPieces == 1

\* The length of a fragment so long that two of them pass the synopsis cap.
LongRun == 350

\* All sequences over S of length 0..n.
SeqsUpTo(S, n) == UNION {[1..k -> S] : k \in 0..n}

RECURSIVE Concat(_)
Concat(ps) == IF Len(ps) = 0 THEN << >> ELSE Head(ps) \o Concat(Tail(ps))

Texts(pieces, n) == {Concat(ps) : ps \in SeqsUpTo(pieces, n)}

\* The UTF-8 bytes of the euro sign.
EuroBytes == << 226, 130, 172 >>

\* Raw bytes: ASCII, a two-byte UTF-8 sequence and its halves, the Latin-1
\* no-break space, a byte that is never valid UTF-8.
ByteAlphabet == {SPACE, PERIOD, Ord("A"), 195, 169, 160, 255}

TxtName == Str(<< "a", ".", "t", "x", "t" >>)

FileNames ==
  { None, TxtName,
    Str(<< "a", ".", "p", "d", "f" >>),
    Str(<< "B", ".", "P", "D", "F" >>),
    Str(<< "c", ".", "d", "o", "c", "x" >>),
    Str(<< "C", ".", "D", "o", "c", "X" >>),
    Str(<< "p", "d", "f" >>),
    Str(<< "a", ".", "p", "d", "f", ".", "t", "x", "t" >>) }

\* Bytes uploaded under every file name.
SampleData ==
  { << >>,
    Str(<< "A", "." >>),
    Str(<< " " >>) \o << LF >>,
    Str(<< "." >>),
    Str(<< "T", "R", "L", " ", "5", ".", " ", "A", "I", " ", "m", "a", "r",
      "k", "e", "t" >>),
    Str(<< "2", "M" >>) \o EuroBytes }

InvalidUtf8 == << 255, 254, 65 >>

\* Texts a PDF page or a DOCX paragraph yields.
PageTextSamples ==
  { Str(<< "T", "R", "L", " ", "5", "." >>),
    Str(<< " " >>) }

\* Pieces that exercise the segmentation.
SegPieces ==
  { Str(<< "a", " " >>),
    Str(<< "." >>),
    << LF >>,
    << CR >> }

\* Sentences that hit the keyword sets of the single-value slots.
KwPieces ==
  { Str(<< "C", "l", "i", "m", "a", "t", "e", " ", "i", "m", "p", "a", "c",
           "t", "." >>) \o << LF >>,
    Str(<< "o", "u", "r", " ", "M", "a", "r", "k", "e", "t", ".", " ", "B",
           "u", "d", "g", "e", "t", " ", "2", "M" >>) \o EuroBytes
      \o Str(<< ".", " " >>),
    Str(<< "U", "n", "i", "v", "e", "r", "s", "i", "t", "y", " ", "p", "a",
           "r", "t", "n", "e", "r", ";", " ", "S", "M", "E", " ", "(", "s",
           "t", "a", "r", "t", "u", "p", ")" >>) \o << LF >>,
    Str(<< "E", "I", "C", " ", "g", "r", "a", "n", "t", "." >>) \o << TAB >>
      \o Str(<< "R", "i", "s", "k", ":", " ", "n", "o", "n", "e", "." >>),
    << TAB >> \o Str(<< "p", "l", "a", "i", "n", " ", "t", "e", "x", "t",
                        ".", " ", "T", "R", "L", " ", "5", " " >>) }

ExampleSentence ==
  Str(<< "W", "e", " ", "u", "s", "e", " ", "A", "I", " ", "a", "n", "d", " ",
    "I", "o", "T", " ", "f", "o", "r", " ", "r", "o", "b", "o", "t", "i", "c",
    "s", " ", "a", "n", "d", " ", "E", "n", "e", "r", "g", "y", " ", "o", "p",
    "t", "i", "m", "i", "z", "a", "t", "i", "o", "n", "." >>)

\* Sentences with vocabulary tokens.
VocPieces ==
  { Str(<< "(", "R", "o", "b", "o", "t", "i", "c", "s", ")", ";", " ", "s",
           "p", "a", "c", "e", " ", "s", "o", "f", "t", "w", "a", "r", "e",
           " ", "M", "L", " ", "e", "n", "e", "r", "g", "y", " ", "I", "o",
           "T" >>) \o << LF >>,
    Str(<< "A", "I", ",", " ", "b", "i", "o", "t", "e", "c", "h", ";", " ",
           "a", "i", "!", " ", "A", "I", ":", " ", "a", "i", "m", "." >>),
    ExampleSentence }

\* n fragments "x", each closed by a period.
Pad(n) == [i \in 1..(2 * n) |-> IF i % 2 = 1 THEN Ord("x") ELSE PERIOD]

\* A fragment of LongRun characters, closed by a period.
LongPiece == [i \in 1..LongRun |-> Ord("x")] \o << PERIOD >>

\* The piece mixed with the long fragment.
LongExtra == {Str(<< "a", "b", ".", " ", "c", "d" >>)}

\* What the parsing library may do with a page / paragraph.
PageOutcomes ==
  {[raises |-> TRUE, text |-> None]}
  \cup {[raises |-> FALSE, text |-> t] : t \in PageTextSamples \cup {None}}

PdfOutcomes ==
  {NoLib} \cup {[opens |-> TRUE, pages |-> p] : p \in SeqsUpTo(PageOutcomes, MaxPages)}

ParagraphOutcomes ==
  {[raises |-> FALSE, text |-> t] : t \in PageTextSamples \cup {<< >>}}

DocxOutcomes ==
  {NoLib}
  \cup {[opens |-> TRUE, pages |-> p] : p \in SeqsUpTo(ParagraphOutcomes, MaxPages)}

LibOutcomes(filename) ==
  IF IsPdfName(filename) THEN PdfOutcomes
  ELSE IF IsDocxName(filename) THEN DocxOutcomes
  ELSE {NoLib}

\* ------------------------------------------------------------------------
\* State: one upload request and what upload_document made of it.
\* ------------------------------------------------------------------------
VARIABLES
  filename,   \* file.filename, None when absent
  data,       \* the bytes file.read() delivers
  pc,         \* "received" -> "responded"
  status,     \* "pending", "ok" (AutoFillResponse) or "rejected" (HTTP 400)
  detail,     \* the detail of the HTTPException
  lib,        \* what the PDF / DOCX library did with the bytes
  dbRaised,   \* whether get_documents raised
  text,       \* the result of _guess_text
  tried,      \* the encodings _guess_text attempted
  sentences,  \* the result of _extract_sentences
  answers,    \* AutoFillResponse.answers
  summary     \* AutoFillResponse.summary

vars ==
  << filename, data, pc, status, detail, lib, dbRaised, text, tried,
     sentences, answers, summary >>

\* Texts with and without 49 one-letter fragments in front, so that the
\* pieces land before and after the 50th fragment.
VocTexts ==
  {p \o t : p \in {<< >>, Pad(KeywordFragments - 1)},
            t \in Texts(VocPieces, MaxVocPieces)}

\* Texts that start with one or two long fragments.
LongTexts ==
  {p \o t : p \in {LongPiece, LongPiece \o LongPiece},
            t \in Texts(LongExtra \cup {LongPiece}, MaxLongPieces)}

Requests ==
  (FileNames \X (SampleData \cup {InvalidUtf8}))
  \cup ({TxtName} \X SeqsUpTo(ByteAlphabet, MaxBytes))
  \cup ({TxtName} \X Texts(SegPieces, MaxSegPieces))
  \cup ({TxtName} \X Texts(KwPieces, MaxKwPieces))
  \cup ({TxtName} \X VocTexts)
  \cup ({TxtName} \X LongTexts)

Init ==
  /\ \E r \in Requests : filename = r[1] /\ data = r[2]
  /\ pc = "received"
  /\ status = "pending"
  /\ detail = ""
  /\ lib = NoLib
  /\ dbRaised = FALSE
  /\ text = << >>
  /\ tried = << >>
  /\ sentences = << >>
  /\ answers = << >>
  /\ summary = << >>

\* Faulty variant: only the empty text is refused.
NoUsableTextEmptyOnly(t) == ~Truthy(t)

\* if not text or len(text.strip()) == 0
NoUsableText(t) == ~Truthy(t) \/ Len(Strip(t)) = 0

EmptyFile == "Empty file uploaded"
NoText == "Could not extract text from file. Supported: PDF, DOCX, TXT"

\* upload_document: the whole handler, from file.read() to the response.
UploadDocument ==
  /\ pc = "received"
  /\ pc' = "responded"
  /\ UNCHANGED << filename, data >>
  /\ IF Len(data) = 0
     THEN /\ status' = "rejected"
          /\ detail' = EmptyFile
          /\ UNCHANGED << lib, dbRaised, text, tried, sentences, answers,
                          summary >>
     ELSE \E l \in LibOutcomes(filename) :
            LET g == GuessText(filename, data, l)
            IN  /\ lib' = l
                /\ text' = g.text
                /\ tried' = g.tried
                /\ IF NoUsableText(g.text)
                   THEN /\ status' = "rejected"
                        /\ detail' = NoText
                        /\ UNCHANGED << dbRaised, sentences, answers, summary >>
                   ELSE LET r == ExtractAnswersFromText(g.text)
                        IN  /\ sentences' = r.sentences
                            /\ answers' = r.filled
                            /\ summary' = r.summary
                            /\ dbRaised' \in BOOLEAN
                            /\ status' = "ok"
                            /\ detail' = ""

Next == UploadDocument

Spec == Init /\ [][Next]_vars

\* ------------------------------------------------------------------------
\* Properties
\* ------------------------------------------------------------------------
Responded == pc = "responded"
Accepted == pc = "responded" /\ status = "ok"

\* The slot ids of the answers, in list order.
Keys == [i \in 1..Len(answers) |-> answers[i].question_id]
HasKey(k) == \E i \in 1..Len(answers) : answers[i].question_id = k
AnswerOf(k) == answers[CHOOSE i \in 1..Len(answers) : answers[i].question_id = k].answer

\* The slot table of the questionnaire: position and keyword set.
SlotOrder == << "q1", "q2", "q3", "q4", "q5", "q6", "q7", "q8", "q9", "q10" >>
SlotIndex(k) == CHOOSE i \in 1..Len(SlotOrder) : SlotOrder[i] = k
SingleSlots == {"q2", "q3", "q4", "q5", "q6", "q7", "q8", "q10"}
SlotKeywords(k) ==
  CASE k = "q2" -> ImpactKeywords
    [] k = "q3" -> TrlKeywords
    [] k = "q4" -> MarketKeywords
    [] k = "q5" -> PartnerKeywords
    [] k = "q6" -> SizeKeywords
    [] k = "q7" -> BudgetKeywords
    [] k = "q8" -> PriorKeywords
    [] k = "q10" -> RiskKeywords

\* Keyword kw occurs in fragment f, ignoring case, at some offset.
OccursIn(kw, f) ==
  \E off \in 0..(Len(f) - Len(kw)) :
     \A j \in 1..Len(kw) : LowerChar(f[off + j]) = kw[j]

\* The indices of the fragments that contain a keyword of slot k.
SlotHits(k) ==
  {i \in 1..Len(sentences) :
     \E n \in 1..Len(SlotKeywords(k)) : OccursIn(SlotKeywords(k)[n], sentences[i])}

\* f without its leading and trailing whitespace.
Trimmed(f) ==
  IF \A i \in 1..Len(f) : f[i] \in WhiteSpace THEN << >>
  ELSE LET a == CHOOSE i \in 1..Len(f) :
                  f[i] \notin WhiteSpace /\ \A j \in 1..(i - 1) : f[j] \in WhiteSpace
           b == CHOOSE i \in 1..Len(f) :
                  f[i] \notin WhiteSpace /\ \A j \in (i + 1)..Len(f) : f[j] \in WhiteSpace
       IN  [i \in 1..(b - a + 1) |-> f[a + i - 1]]

\* C1: with a file name ending in .pdf, a PDF extraction that fails entirely
\* and bytes that are valid UTF-8, _guess_text returns the UTF-8 decoding of
\* the bytes (the encoding fallback is tried after the failed extraction).
C1_PdfFallsBackToUtf8 ==
  (/\ Responded
   /\ Len(data) > 0
   /\ IsPdfName(filename)
   /\ ~lib.opens
   /\ Utf8Decode(data) # DecodeError)
  => text = Utf8Decode(data)

\* C2: every single-value slot with a matching fragment is answered by the
\* trimmed text of the lowest-index fragment that contains one of its
\* keywords case-insensitively; a slot no fragment matches is absent.
C2_FirstMatchingFragment ==
  Accepted =>
    \A k \in SingleSlots :
       LET hits == SlotHits(k)
       IN  IF hits = {} THEN ~HasKey(k)
           ELSE /\ HasKey(k)
                /\ \E i \in hits :
                      /\ \A j \in hits : i <= j
                      /\ AnswerOf(k) = Trimmed(sentences[i])

C2_Witness ==
  /\ Accepted
  /\ \E k \in SingleSlots : SlotHits(k) = {}
  /\ \E k \in SingleSlots :
        LET hits == SlotHits(k)
        IN  /\ \A i \in hits : i > 1
            /\ \E i, j \in hits : sentences[i] # sentences[j]

\* The candidates of the segmentation: the text between consecutive cuts,
\* a cut being a line feed or a period, with carriage returns read as
\* spaces, in text order.
Candidates(t) ==
  LET u == [i \in 1..Len(t) |-> IF t[i] = CR THEN SPACE ELSE t[i]]
      cuts == SelectSeq([i \in 1..Len(u) |-> i],
                        LAMBDA i : u[i] = LF \/ u[i] = PERIOD)
      from(k) == IF k = 1 THEN 1 ELSE cuts[k - 1] + 1
      to(k) == IF k = Len(cuts) + 1 THEN Len(u) ELSE cuts[k] - 1
  IN  [k \in 1..(Len(cuts) + 1) |-> SubSeq(u, from(k), to(k))]

\* C3: the fragments are non-empty, start and end with a non-whitespace
\* character, contain neither a line feed nor a period, and are, in text
\* order, the non-empty trimmed candidates of the text cut at every line
\* feed and every period.
C3_Segmenter ==
  Accepted =>
    /\ \A i \in 1..Len(sentences) :
          /\ Len(sentences[i]) > 0
          /\ sentences[i][1] \notin WhiteSpace
          /\ sentences[i][Len(sentences[i])] \notin WhiteSpace
          /\ \A j \in 1..Len(sentences[i]) :
                sentences[i][j] \notin {LF, CR, PERIOD}
    /\ LET c == Candidates(text)
       IN  sentences = SelectSeq([k \in 1..Len(c) |-> Trimmed(c[k])],
                                 LAMBDA f : f # << >>)

C3_Witness ==
  /\ Accepted
  /\ Len(sentences) >= 2
  /\ \E i \in 1..Len(text) : text[i] = CR
  /\ \E i \in 1..Len(text) : text[i] = LF
  /\ \E i \in 1..Len(text) : text[i] = PERIOD
  /\ LET c == Candidates(text)
     IN  /\ Len(c) > Len(sentences)
         /\ \E k \in 1..Len(c) : c[k] # << >> /\ c[k] # Trimmed(c[k])

\* The vocabulary in ascending alphabetical order.
SortedVocabulary ==
  << Str(<< "a", "i" >>),
     Str(<< "b", "i", "o", "t", "e", "c", "h" >>),
     Str(<< "c", "l", "i", "m", "a", "t", "e" >>),
     Str(<< "e", "n", "e", "r", "g", "y" >>),
     Str(<< "i", "o", "t" >>),
     Str(<< "m", "a", "n", "u", "f", "a", "c", "t", "u", "r", "i", "n", "g" >>),
     Str(<< "m", "l" >>),
     Str(<< "r", "o", "b", "o", "t", "i", "c", "s" >>),
     Str(<< "s", "o", "f", "t", "w", "a", "r", "e" >>),
     Str(<< "s", "p", "a", "c", "e" >>) >>

\* Word w is a token of fragment f: a maximal whitespace-free run of f that,
\* without the , ; ( ) at its ends and in lower case, is w.
IsTokenOf(w, f) ==
  \E a \in 1..Len(f) :
     /\ f[a] \notin WhiteSpace
     /\ a = 1 \/ f[a - 1] \in WhiteSpace
     /\ \E b \in a..Len(f) :
           /\ b = Len(f) \/ f[b + 1] \in WhiteSpace
           /\ \A j \in a..b : f[j] \notin WhiteSpace
           /\ \E x \in a..b :
                 /\ x + Len(w) - 1 <= b
                 /\ \A j \in a..(x - 1) : f[j] \in TokenPunctuation
                 /\ \A j \in (x + Len(w))..b : f[j] \in TokenPunctuation
                 /\ \A j \in 1..Len(w) : LowerChar(f[x + j - 1]) = w[j]

\* The ranks in SortedVocabulary of the words that hit in fragments lo..hi.
WordHits(lo, hi) ==
  {v \in 1..Len(SortedVocabulary) :
     \E i \in lo..hi : i <= Len(sentences) /\ IsTokenOf(SortedVocabulary[v], sentences[i])}

CommaSpace == << 44, 32 >>

\* C4: q9 is absent when no vocabulary word hits in the first 50 fragments;
\* otherwise it is the comma-space join, in ascending alphabetical order,
\* of the alphabetically first (at most 5) distinct words that hit there.
C4_KeywordSlot ==
  Accepted =>
    LET hits == WordHits(1, 50)
        kept == {v \in hits : Cardinality({w \in hits : w < v}) < 5}
        words == SelectSeq(SortedVocabulary,
                           LAMBDA w : \E v \in kept : SortedVocabulary[v] = w)
    IN  /\ HasKey("q9") <=> hits # {}
        /\ HasKey("q9") => AnswerOf("q9") = Join(words, CommaSpace)
        /\ text = ExampleSentence =>
             AnswerOf("q9") = Str(<< "a", "i", ",", " ", "e", "n", "e", "r", "g",
                                     "y", ",", " ", "i", "o", "t", ",", " ", "r",
                                     "o", "b", "o", "t", "i", "c", "s" >>)

C4_Witness ==
  /\ Accepted
  /\ Cardinality(WordHits(1, 50)) > 5
  /\ Len(sentences) > 50
  /\ WordHits(51, Len(sentences)) \ WordHits(1, 50) # {}

\* The first min(3, n) fragments joined by single spaces.
FirstThree ==
  LET n == Len(sentences)
  IN  IF n = 0 THEN << >>
      ELSE IF n = 1 THEN sentences[1]
      ELSE IF n = 2 THEN sentences[1] \o << SPACE >> \o sentences[2]
      ELSE sentences[1] \o << SPACE >> \o sentences[2] \o << SPACE >> \o sentences[3]

\* C5: the synopsis and the q1 answer are both the first min(3, n) fragments
\* joined by single spaces, cut to its first 600 characters.
C5_Synopsis ==
  Accepted =>
    LET full == FirstThree
        cut == [i \in 1..(IF Len(full) < 600 THEN Len(full) ELSE 600) |-> full[i]]
    IN  /\ summary = cut
        /\ HasKey("q1") /\ AnswerOf("q1") = cut
        /\ Len(summary) <= 600
        /\ summary = << >> <=> sentences = << >>

C5_Witness ==
  /\ Accepted
  /\ Len(sentences) >= 4
  /\ Len(FirstThree) > 600
  /\ Len(summary) = 600

\* C6: the upload is rejected exactly when the bytes are empty or the
\* decoded text is empty or whitespace only; every other upload returns a
\* response, whatever get_documents does.
C6_OnlyEmptyTextRejected ==
  Responded =>
    /\ status \in {"ok", "rejected"}
    /\ status = "rejected" <=>
         (Len(data) = 0 \/ \A i \in 1..Len(text) : text[i] \in WhiteSpace)

C6_Witness ==
  /\ Accepted
  /\ dbRaised
  /\ Keys = << "q1" >>

\* C7: the answers are in slot declaration order, no slot twice, and a slot
\* is listed exactly when it had a match (q1 always).
C7_DeclarationOrder ==
  Accepted =>
    /\ \A i \in 1..Len(answers) : \E n \in 1..Len(SlotOrder) : SlotOrder[n] = Keys[i]
    /\ \A i, j \in 1..Len(answers) :
          i < j => SlotIndex(Keys[i]) < SlotIndex(Keys[j])
    /\ HasKey("q1")
    /\ \A k \in SingleSlots : HasKey(k) <=> SlotHits(k) # {}
    /\ HasKey("q9") <=> WordHits(1, 50) # {}

C7_Witness ==
  /\ Accepted
  /\ HasKey("q9") /\ HasKey("q10") /\ HasKey("q2")
  /\ ~HasKey("q3") /\ ~HasKey("q7")
  /\ Len(answers) >= 4

\* C8: for a .pdf upload the extracted text is the newline join, in page
\* order, of the texts of the pages that did not raise (no text counts as
\* the empty string); a document that cannot be opened gives the empty text.
C8_PdfFailSoft ==
  (Responded /\ Len(data) > 0 /\ IsPdfName(filename)) =>
    IF ~lib.opens THEN text = << >>
    ELSE LET kept == SelectSeq(lib.pages, LAMBDA pg : ~pg.raises)
         IN  text = Join([i \in 1..Len(kept) |->
                            IF kept[i].text = None THEN << >> ELSE kept[i].text],
                         << LF >>)

C8_Witness ==
  /\ Responded /\ IsPdfName(filename) /\ lib.opens
  /\ \E i, j \in 1..Len(lib.pages) :
        /\ i < j
        /\ lib.pages[i].raises
        /\ ~lib.pages[j].raises
        /\ lib.pages[j].text # None
        /\ text = lib.pages[j].text

\* C9: for a file name ending in neither .pdf nor .docx and non-empty bytes,
\* the text is the UTF-8 decoding when the bytes are valid UTF-8 and the
\* Latin-1 decoding otherwise; UTF-16 is never attempted and the text is
\* never empty.
C9_PlainTextDecoding ==
  (Responded /\ Len(data) > 0 /\ ~IsPdfName(filename) /\ ~IsDocxName(filename)) =>
    /\ text = (IF Utf8Decode(data) # DecodeError THEN Utf8Decode(data)
               ELSE [i \in 1..Len(data) |-> data[i]])
    /\ \A i \in 1..Len(tried) : tried[i] # "utf-16"
    /\ Len(tried) <= 2
    /\ Len(text) > 0

C9_Witness ==
  /\ Responded /\ ~IsPdfName(filename) /\ ~IsDocxName(filename)
  /\ Utf8Decode(data) = DecodeError
  /\ tried = << "utf-8", "latin-1" >>
  /\ text = data

\* C10: q1 is always the first answer; a text without fragments is
\* answered by q1 alone, with the empty string, and an empty synopsis.
C10_FirstAnswerAlways ==
  Accepted =>
    /\ Len(answers) >= 1
    /\ answers[1].question_id = "q1"
    /\ sentences = << >> =>
         /\ answers = << [question_id |-> "q1", answer |-> << >>] >>
         /\ summary = << >>

C10_Witness ==
  /\ Accepted
  /\ sentences = << >>
  /\ \E i \in 1..Len(text) : text[i] = PERIOD
  /\ \E i \in 1..Len(text) : text[i] \in WhiteSpace

====
